---- MODULE Spec2Model ----
(***************************************************************************)
(* A model of the recipe RAG pipeline: RAGPipeline (rag_pipeline.py),      *)
(* RerankerService (reranker_service.py), LLMService (llm_service.py) and  *)
(* the health endpoint (main.py).                                          *)
(*                                                                         *)
(* Recipes are identified by their 0-based corpus position.  Strings are   *)
(* sequences of one-character strings.  A relevance score s in [0,1] is    *)
(* the integer s * Scale, so 1.0 is Scale.  Python's None is "None".       *)
(***************************************************************************)
EXTENDS Integers, Sequences, FiniteSets, TLC

\* ------------------------------------------------------------------ bounds
NumThreads == 2
MaxTopK == 2
MaxRetrieve == 3
MaxRaw == 3

Scale == 10

Threads == 1..NumThreads

Min(a, b) == IF a < b THEN a ELSE b

\* ----------------------------------------------------------------- strings
\* str.lower() on the characters the corpus and the inputs use.
Lower(c) ==
    CASE c = "E" -> "e"
      [] c = "F" -> "f"
      [] c = "G" -> "g"
      [] OTHER -> c

LowerStr(s) == [i \in 1..Len(s) |-> Lower(s[i])]

\* Python's `needle in hay` on strings.
Contains(hay, needle) ==
    \E i \in 0..(Len(hay) - Len(needle)) :
        SubSeq(hay, i + 1, i + Len(needle)) = needle

\* A slice that forgets its bound.
TakeAll(seq, k) == seq

\* Python's seq[:k] for k >= 0.
Take(seq, k) == SubSeq(seq, 1, Min(k, Len(seq)))

\* ------------------------------------------------------------------ corpus
Corpus ==
    << [Title |-> <<"A">>, Ingredients |-> <<"E","g","g",",","F","l","o","u","r">>],
       [Title |-> <<"B">>, Ingredients |-> <<"e","g","g",",","m","i","l","k">>] >>

CorpusSize == Len(Corpus)

RecipeIds == 0..(CorpusSize - 1)

\* recipe.Ingredients of the recipe at corpus position id.
IngredientsOf(id) == Corpus[id + 1].Ingredients

EggUpper == <<"E","G","G">>
Flour == <<"f","l","o","u","r">>
Milk == <<"m","i","l","k">>
Salt == <<"s","a","l","t">>

\* The ingredient lists a request may carry (non-empty, per the contract).
UserInputs == { <<EggUpper, Flour>>, <<Milk, Milk, EggUpper>>, <<Salt>> }

\* ------------------------------------------------------- match annotation
\* rag_pipeline.py 245-249: the user ingredients, in order and with
\* repetitions, whose lower-cased text occurs in the lower-cased recipe text.
\* The comparison without the two lower() calls.
RECURSIVE MatchingIngredientsCaseSensitive(_, _)
MatchingIngredientsCaseSensitive(id, ingredients) ==
    IF ingredients = << >> THEN << >>
    ELSE LET rest == MatchingIngredientsCaseSensitive(id, Tail(ingredients))
             ing  == Head(ingredients)
         IN  IF Contains(IngredientsOf(id), ing)
             THEN <<ing>> \o rest
             ELSE rest

RECURSIVE MatchingIngredients(_, _)
MatchingIngredients(id, ingredients) ==
    IF ingredients = << >> THEN << >>
    ELSE LET rest == MatchingIngredients(id, Tail(ingredients))
             ing  == Head(ingredients)
         IN  IF Contains(LowerStr(IngredientsOf(id)), LowerStr(ing))
             THEN <<ing>> \o rest
             ELSE rest

\* RecipeWithMatch(**recipe.dict(), matchingCount=..., matchingIngredients=...)
Annotate(id, ingredients) ==
    LET m == MatchingIngredients(id, ingredients)
    IN  [recipe |-> id, matchingCount |-> Len(m), matchingIngredients |-> m]

\* ------------------------------------------------------- stable sort, desc
\* list.sort(key=..., reverse=True): stable, equal keys keep their order.
\* Pairs are <<recipe, score>>.
RECURSIVE InsertDesc(_, _)
InsertDesc(p, sorted) ==
    IF sorted = << >> THEN <<p>>
    ELSE IF Head(sorted)[2] >= p[2]
         THEN <<Head(sorted)>> \o InsertDesc(p, Tail(sorted))
         ELSE <<p>> \o sorted

RECURSIVE SortDesc(_)
SortDesc(pairs) ==
    IF pairs = << >> THEN << >>
    ELSE LET n == Len(pairs)
         IN  InsertDesc(pairs[n], SortDesc(SubSeq(pairs, 1, n - 1)))

\* ------------------------------------------------------------------ scores
\* reranker_service.py 152: 1 / (1 + exp(-score)), in fixed point: e is 27/10,
\* the quotient is rounded to the nearest multiple of 1/Scale (as a float
\* rounds to the nearest representable value, reaching 0.0 and 1.0 exactly
\* for scores far from zero).
RECURSIVE Pow(_, _)
Pow(b, n) == IF n = 0 THEN 1 ELSE b * Pow(b, n - 1)

\* The raw score, not normalised.
SigmoidRaw(x) == x

Sigmoid(x) ==
    LET n == IF x >= 0 THEN x ELSE -x
        a == IF x >= 0 THEN Pow(27, n) ELSE Pow(10, n)
        b == Pow(27, n) + Pow(10, n)
    IN  (2 * Scale * a + b) \div (2 * b)

\* The scores a cross-encoder may give one query/recipe pair: any real; here
\* a low, a middle and a high one.
RawScores == {-MaxRaw, 0, MaxRaw}

\* reranker_service.py 120, 132, 172: [(recipe, 1.0) for recipe in recipes[:top_k]]
DummyScore == Scale

\* Dummy scores for all the recipes, not only the first k.
FallbackUntruncated(recipes, k) == [i \in 1..Len(recipes) |-> <<recipes[i], DummyScore>>]

Fallback(recipes, k) ==
    LET head == Take(recipes, k)
    IN  [i \in 1..Len(head) |-> <<head[i], DummyScore>>]

\* reranker_service.py 152-161: normalise, zip, sort descending, take top_k.
Normalize(raw) == [i \in 1..Len(raw) |-> Sigmoid(raw[i])]

Zip(recipes, normalized) ==
    [i \in 1..Min(Len(recipes), Len(normalized)) |-> <<recipes[i], normalized[i]>>]

\* Truncation before the sort.
TopResultsTruncateFirst(recipes, normalized, k) ==
    SortDesc(Take(Zip(recipes, normalized), k))

TopResults(recipes, normalized, k) == Take(SortDesc(Zip(recipes, normalized)), k)

\* --------------------------------------------------------------- retrieval
\* all_recipes[idx] with Python's indexing: a negative idx counts from the
\* end (rag_pipeline.py 85-86 only tests idx < len(all_recipes)).
PyIndex(idx) == IF idx >= 0 THEN idx ELSE CorpusSize + idx

\* rag_pipeline.py 83-86
RECURSIVE ResolveIndices(_)
ResolveIndices(indices) ==
    IF indices = << >> THEN << >>
    ELSE IF Head(indices) < CorpusSize
         THEN <<PyIndex(Head(indices))>> \o ResolveIndices(Tail(indices))
         ELSE ResolveIndices(Tail(indices))

\* The identifiers a search for k neighbours may return: k of them, each a
\* corpus position, the -1 "no neighbour" sentinel, or one past the corpus.
IndexIds == (-1)..CorpusSize

SearchResults(k) == [1..k -> IndexIds]

\* recipe_service.find_suitable_recipes(use_vector_search=False): the recipes
\* with at least one matching user ingredient, by descending match count,
\* ties in corpus order, at most `limit` of them.
MatchCount(id, ingredients) == Len(MatchingIngredients(id, ingredients))

RECURSIVE MatchedFrom(_, _)
MatchedFrom(id, ingredients) ==
    IF id >= CorpusSize THEN << >>
    ELSE IF MatchCount(id, ingredients) > 0
         THEN <<<<id, MatchCount(id, ingredients)>>>> \o MatchedFrom(id + 1, ingredients)
         ELSE MatchedFrom(id + 1, ingredients)

LexicalMatch(ingredients, limit) ==
    LET top == Take(SortDesc(MatchedFrom(0, ingredients)), limit)
    IN  [i \in 1..Len(top) |-> top[i][1]]

\* ------------------------------------------------------------------- state
VARIABLES
    index_loaded,       \* faiss_service.is_loaded()
    rr_enabled,         \* RerankerService.enabled
    rr_model_loaded,    \* RerankerService._model_loaded
    rr_model,           \* RerankerService.model: "None" or "model"
    llm_enabled,        \* LLMService.enabled
    llm_api_key,        \* bool(LLMService.api_key)
    llm_model_loaded,   \* LLMService._model_loaded
    llm_model,          \* LLMService.model: "None" or "model"
    rr_loads,           \* history: CrossEncoder(...) calls made so far
    rr_load_failed,     \* history: one of them raised
    llm_loads,          \* history: GenerativeModel(...) calls made so far
    llm_load_failed,    \* history: one of them raised
    transient,          \* history: "score" / "generate" once such a call raised
    pc,                 \* each call's position
    op,                 \* each call's entry point
    req,                \* each call's arguments
    pre,                \* history: the services' fields when the call began
    indices,            \* _retrieve's `indices`, kept until rerank is entered
    cands,              \* retrieved_recipes / the recipes argument
    scores,             \* normalized_scores, empty before scoring
    reranked,           \* reranked_results / rerank's return value
    explanation,        \* generate_explanation's return value
    result,             \* process's return value
    raised,             \* an exception left the call
    ev                  \* history: what happened during the call

svc == <<index_loaded, rr_enabled, rr_model_loaded, rr_model,
         llm_enabled, llm_api_key, llm_model_loaded, llm_model>>

rr_vars == <<rr_enabled, rr_model_loaded, rr_model>>

llm_vars == <<llm_enabled, llm_api_key, llm_model_loaded, llm_model>>

hist == <<rr_loads, rr_load_failed, llm_loads, llm_load_failed, transient>>

locals == <<req, indices, pre, cands, scores, reranked, explanation, result, raised, ev>>

vars == <<svc, hist, pc, op, locals>>

NoReq == [ingredients |-> << >>, top_k |-> 0, retrieval_top_k |-> 0, explain |-> FALSE]

NoResult == [none |-> TRUE]

NoPre == [none |-> TRUE]

\* The services' fields, as a call sees them when it begins.
Snapshot ==
    [rr_enabled |-> rr_enabled, rr_model_loaded |-> rr_model_loaded,
     rr_model |-> rr_model, llm_enabled |-> llm_enabled,
     llm_model_loaded |-> llm_model_loaded, llm_model |-> llm_model,
     rr_load_failed |-> rr_load_failed, llm_load_failed |-> llm_load_failed,
     rr_loads |-> rr_loads, llm_loads |-> llm_loads, transient |-> transient]

\* RerankerService.__init__ (23-28), LLMService.__init__ (23-30): no model yet;
\* enabled, the API key and the index come from the configuration and startup.
Init ==
    /\ index_loaded \in BOOLEAN
    /\ rr_enabled \in BOOLEAN
    /\ rr_model_loaded = FALSE
    /\ rr_model = "None"
    /\ llm_enabled \in BOOLEAN
    /\ llm_api_key \in BOOLEAN
    /\ llm_model_loaded = FALSE
    /\ llm_model = "None"
    /\ rr_loads = 0
    /\ rr_load_failed = FALSE
    /\ llm_loads = 0
    /\ llm_load_failed = FALSE
    /\ transient = {}
    /\ pc = [t \in Threads |-> "idle"]
    /\ op = [t \in Threads |-> "idle"]
    /\ req = [t \in Threads |-> NoReq]
    /\ indices = [t \in Threads |-> << >>]
    /\ pre = [t \in Threads |-> NoPre]
    /\ cands = [t \in Threads |-> << >>]
    /\ scores = [t \in Threads |-> << >>]
    /\ reranked = [t \in Threads |-> << >>]
    /\ explanation = [t \in Threads |-> "None"]
    /\ result = [t \in Threads |-> NoResult]
    /\ raised = [t \in Threads |-> FALSE]
    /\ ev = [t \in Threads |-> {}]

AllIdle == \A t \in Threads : pc[t] = "idle"

\* A call begins: its locals are fresh.
Begin(t, entry, first, args, recipes) ==
    /\ pc[t] = "idle"
    /\ pc' = [pc EXCEPT ![t] = first]
    /\ op' = [op EXCEPT ![t] = entry]
    /\ req' = [req EXCEPT ![t] = args]
    /\ indices' = [indices EXCEPT ![t] = << >>]
    /\ pre' = [pre EXCEPT ![t] = Snapshot]
    /\ cands' = [cands EXCEPT ![t] = recipes]
    /\ scores' = [scores EXCEPT ![t] = << >>]
    /\ reranked' = [reranked EXCEPT ![t] = << >>]
    /\ explanation' = [explanation EXCEPT ![t] = "None"]
    /\ result' = [result EXCEPT ![t] = NoResult]
    /\ raised' = [raised EXCEPT ![t] = FALSE]
    /\ ev' = [ev EXCEPT ![t] = {}]
    /\ UNCHANGED <<svc, hist>>

\* rag_pipeline.process(user_ingredients, ..., top_k, explain, retrieval_top_k)
StartProcess(t) ==
    \E ing \in UserInputs, k \in 1..MaxTopK, rk \in 1..MaxRetrieve, ex \in BOOLEAN :
        Begin(t, "process", "retrieve",
              [ingredients |-> ing, top_k |-> k, retrieval_top_k |-> rk, explain |-> ex],
              << >>)

\* The candidate lists a direct caller may pass: any recipes, also none.
CandidateLists == UNION { [1..n -> RecipeIds] : n \in 0..MaxRetrieve }

\* reranker_service.rerank(query, recipes, top_k)
StartRerank(t) ==
    \E recipes \in CandidateLists, k \in 1..MaxTopK :
        Begin(t, "rerank", "rr_enabled", [NoReq EXCEPT !.top_k = k], recipes)

\* llm_service.generate_explanation(user_ingredients, recommended_recipes, ...)
StartGenerate(t) ==
    \E recipes \in CandidateLists :
        Begin(t, "generate", "gen_entry", NoReq, recipes)

\* The call returns to its caller, which drops the value.
Return(t) ==
    /\ pc[t] = "done"
    /\ pc' = [pc EXCEPT ![t] = "idle"]
    /\ op' = [op EXCEPT ![t] = "idle"]
    /\ req' = [req EXCEPT ![t] = NoReq]
    /\ indices' = [indices EXCEPT ![t] = << >>]
    /\ pre' = [pre EXCEPT ![t] = NoPre]
    /\ cands' = [cands EXCEPT ![t] = << >>]
    /\ scores' = [scores EXCEPT ![t] = << >>]
    /\ reranked' = [reranked EXCEPT ![t] = << >>]
    /\ explanation' = [explanation EXCEPT ![t] = "None"]
    /\ result' = [result EXCEPT ![t] = NoResult]
    /\ raised' = [raised EXCEPT ![t] = FALSE]
    /\ ev' = [ev EXCEPT ![t] = {}]
    /\ UNCHANGED <<svc, hist>>

\* ------------------------------------------------------- status accessors
\* RerankerService.is_loaded (97)
RerankerIsLoaded == rr_model_loaded /\ rr_model # "None" /\ rr_enabled

\* LLMService.is_available (65)
LLMIsAvailable == llm_enabled /\ llm_model_loaded /\ llm_model # "None"

\* A report that does not read the enabled flag.
RerankerGetModelInfoLoadedOnly == [loaded |-> rr_model_loaded, enabled |-> TRUE]

\* RerankerService.get_model_info (196-201), the fields that vary
RerankerGetModelInfo == [loaded |-> rr_model_loaded, enabled |-> rr_enabled]

\* LLMService.get_model_info (225-232), the fields that vary
LLMGetModelInfo ==
    [loaded |-> llm_model_loaded, enabled |-> llm_enabled, has_api_key |-> llm_api_key]

\* main.health_check (121-136), the rag_pipeline block
HealthCheck ==
    [retriever |-> [available |-> index_loaded],
     reranker  |-> [available |-> rr_enabled,
                    loaded    |-> IF rr_enabled THEN RerankerIsLoaded ELSE FALSE,
                    model     |-> IF rr_enabled THEN "model_name" ELSE "None"],
     generator |-> [available   |-> LLMIsAvailable,
                    model       |-> IF llm_enabled THEN "model_name" ELSE "None",
                    has_api_key |-> IF llm_enabled THEN llm_api_key ELSE FALSE]]

StatusReport ==
    [reranker_info |-> RerankerGetModelInfo,
     llm_info      |-> LLMGetModelInfo,
     health        |-> HealthCheck]

\* A status request: /health and the two get_model_info accessors.
StartStatus(t) == Begin(t, "status", "status", NoReq, << >>)

\* A status request that loads the reranker's model in order to report it.
StatusLoads(t) ==
    /\ pc[t] = "status"
    /\ result' = [result EXCEPT ![t] = StatusReport]
    /\ pc' = [pc EXCEPT ![t] = "done"]
    /\ rr_model' = IF rr_enabled THEN "model" ELSE rr_model
    /\ rr_model_loaded' = (rr_enabled \/ rr_model_loaded)
    /\ UNCHANGED <<index_loaded, rr_enabled, llm_vars, hist, op, req, indices, pre,
                   cands, scores, reranked, explanation, raised, ev>>

Status(t) ==
    /\ pc[t] = "status"
    /\ result' = [result EXCEPT ![t] = StatusReport]
    /\ pc' = [pc EXCEPT ![t] = "done"]
    /\ UNCHANGED <<svc, hist, op, req, indices, pre, cands, scores, reranked, explanation, raised, ev>>

\* ------------------------------------------------- RAGPipeline._retrieve
ShortCircuit ==
    [recipes |-> << >>, explanation |-> "None",
     metadata |-> [retrieval_count |-> 0, reranked_count |-> 0,
                   pipeline_stages |-> <<"retrieval">>]]

\* No early return when nothing was retrieved.
RetrievedNoShortCircuit(t, recipes, events) ==
    /\ cands' = [cands EXCEPT ![t] = recipes]
    /\ ev' = [ev EXCEPT ![t] = @ \cup events]
    /\ result' = result
    /\ pc' = [pc EXCEPT ![t] = "rr_enabled"]
    /\ UNCHANGED <<svc, hist, op, req, pre, scores, reranked, explanation, raised>>

\* _retrieve returned `recipes`; process 221-231 returns at once when there
\* are none, and otherwise calls _rerank (120: the list is not empty).
Retrieved(t, recipes, events) ==
    /\ cands' = [cands EXCEPT ![t] = recipes]
    /\ ev' = [ev EXCEPT ![t] = @ \cup events]
    /\ IF recipes = << >>
       THEN /\ result' = [result EXCEPT ![t] = ShortCircuit]
            /\ pc' = [pc EXCEPT ![t] = "done"]
       ELSE /\ result' = result
            /\ pc' = [pc EXCEPT ![t] = "rr_enabled"]
    /\ UNCHANGED <<svc, hist, op, req, pre, scores, reranked, explanation, raised>>

\* 60-69: the index is not loaded, the lexical matcher answers.
RetrieveLexical(t) ==
    /\ pc[t] = "retrieve"
    /\ ~index_loaded
    /\ Retrieved(t, LexicalMatch(req[t].ingredients, req[t].retrieval_top_k), {"lexical"})
    /\ UNCHANGED indices

\* The search asked for top_k neighbours, however small the corpus.
RetrieveVectorNoMin(t) ==
    /\ pc[t] = "retrieve"
    /\ index_loaded
    /\ \E ids \in SearchResults(req[t].retrieval_top_k) :
           /\ indices' = [indices EXCEPT ![t] = ids]
           /\ Retrieved(t, ResolveIndices(ids), {"vector"})

\* 72-89: the index answers with k identifiers.
RetrieveVector(t) ==
    /\ pc[t] = "retrieve"
    /\ index_loaded
    /\ \E ids \in SearchResults(Min(req[t].retrieval_top_k, CorpusSize)) :
           /\ indices' = [indices EXCEPT ![t] = ids]
           /\ Retrieved(t, ResolveIndices(ids), {"vector"})

\* 91-100: a call in the try block raised (is_loaded, the embedding, the
\* search, the corpus access, or the lexical matcher at 63), and the lexical
\* matcher called in the handler answers.
RetrieveFallback(t) ==
    /\ pc[t] = "retrieve"
    /\ Retrieved(t, LexicalMatch(req[t].ingredients, req[t].retrieval_top_k),
                 {"try_raised", "lexical"})
    /\ UNCHANGED indices

\* An exception leaves the call: its frame, and the locals in it, are gone.
Raise(t, events) ==
    /\ raised' = [raised EXCEPT ![t] = TRUE]
    /\ ev' = [ev EXCEPT ![t] = @ \cup events]
    /\ pc' = [pc EXCEPT ![t] = "done"]
    /\ indices' = [indices EXCEPT ![t] = << >>]
    /\ cands' = [cands EXCEPT ![t] = << >>]
    /\ scores' = [scores EXCEPT ![t] = << >>]
    /\ reranked' = [reranked EXCEPT ![t] = << >>]
    /\ explanation' = [explanation EXCEPT ![t] = "None"]
    /\ UNCHANGED <<svc, hist, op, req, pre, result>>

\* 91-100: a call in the try block raised and the lexical matcher called in
\* the handler raises too: nothing catches it, in _retrieve or in process.
RetrieveRaises(t) ==
    /\ pc[t] = "retrieve"
    /\ Raise(t, {"try_raised", "lexical_raised"})

\* ------------------------------------------------- RerankerService.rerank
\* rerank returns `value`: to its direct caller, or to process through
\* _rerank (127-134), which goes on to the annotation and then to _generate
\* when an explanation was asked for.
\* (First, the variant that goes on to _generate whatever `explain` is.)
RerankReturnsThenGenerates(t, value, events) ==
    /\ reranked' = [reranked EXCEPT ![t] = value]
    /\ ev' = [ev EXCEPT ![t] = @ \cup events \cup {"rerank_returned"}]
    /\ pc' = [pc EXCEPT ![t] = IF op[t] = "rerank" THEN "done" ELSE "gen_entry"]

RerankReturns(t, value, events) ==
    /\ reranked' = [reranked EXCEPT ![t] = value]
    /\ ev' = [ev EXCEPT ![t] = @ \cup events \cup {"rerank_returned"}]
    /\ pc' = [pc EXCEPT ![t] =
                 IF op[t] = "rerank" THEN "done"
                 ELSE IF req[t].explain THEN "gen_entry" ELSE "finalize"]

\* Each way into rerank (117-124) drops `indices`, a local of _retrieve that
\* nothing reads once the candidates are resolved.
\* 117-120: the reranker is disabled
RrDisabled(t) ==
    /\ pc[t] = "rr_enabled"
    /\ ~rr_enabled
    /\ RerankReturns(t, Fallback(cands[t], req[t].top_k), {"rerank_called"})
    /\ indices' = [indices EXCEPT ![t] = << >>]
    /\ UNCHANGED <<svc, hist, op, req, pre, cands, scores, explanation, result, raised>>

\* No test for an empty list: the call goes on to the lazy load.
RrEmptyGoesOn(t) ==
    /\ pc[t] = "rr_enabled"
    /\ rr_enabled
    /\ cands[t] = << >>
    /\ pc' = [pc EXCEPT ![t] = "rr_loaded"]
    /\ ev' = [ev EXCEPT ![t] = @ \cup {"rerank_called"}]
    /\ indices' = [indices EXCEPT ![t] = << >>]
    /\ UNCHANGED <<svc, hist, op, req, pre, cands, scores, reranked, explanation, result, raised>>

\* 122-124: nothing to rerank
RrEmpty(t) ==
    /\ pc[t] = "rr_enabled"
    /\ rr_enabled
    /\ cands[t] = << >>
    /\ RerankReturns(t, << >>, {"rerank_called"})
    /\ indices' = [indices EXCEPT ![t] = << >>]
    /\ UNCHANGED <<svc, hist, op, req, pre, cands, scores, explanation, result, raised>>

\* 117-124 passed
RrEnabled(t) ==
    /\ pc[t] = "rr_enabled"
    /\ rr_enabled
    /\ cands[t] # << >>
    /\ pc' = [pc EXCEPT ![t] = "rr_loaded"]
    /\ ev' = [ev EXCEPT ![t] = @ \cup {"rerank_called"}]
    /\ indices' = [indices EXCEPT ![t] = << >>]
    /\ UNCHANGED <<svc, hist, op, req, pre, cands, scores, reranked, explanation, result, raised>>

\* 126: if not self._model_loaded: self._load_model()
RrCheckLoaded(t) ==
    /\ pc[t] = "rr_loaded"
    /\ pc' = [pc EXCEPT ![t] = IF rr_model_loaded THEN "rr_score" ELSE "load_guard_loaded"]
    /\ UNCHANGED <<svc, hist, op, locals>>

\* 32: not self._model_loaded ...
LoadGuardLoaded(t) ==
    /\ pc[t] = "load_guard_loaded"
    /\ pc' = [pc EXCEPT ![t] = IF rr_model_loaded THEN "rr_score" ELSE "load_guard_enabled"]
    /\ UNCHANGED <<svc, hist, op, locals>>

\* 32: ... and self.enabled
LoadGuardEnabled(t) ==
    /\ pc[t] = "load_guard_enabled"
    /\ pc' = [pc EXCEPT ![t] = IF rr_enabled THEN "load_construct" ELSE "rr_score"]
    /\ UNCHANGED <<svc, hist, op, locals>>

\* 35: self.model = CrossEncoder(self.model_name)
LoadConstructOk(t) ==
    /\ pc[t] = "load_construct"
    /\ rr_model' = "model"
    /\ rr_loads' = rr_loads + 1
    /\ pc' = [pc EXCEPT ![t] = "load_flag"]
    /\ ev' = [ev EXCEPT ![t] = @ \cup {"rr_load_ok"}]
    /\ UNCHANGED <<index_loaded, rr_enabled, rr_model_loaded, llm_vars,
                   rr_load_failed, llm_loads, llm_load_failed, transient,
                   op, req, indices, pre, cands, scores, reranked, explanation, result, raised>>

\* 35: CrossEncoder(self.model_name) raises
LoadConstructFails(t) ==
    /\ pc[t] = "load_construct"
    /\ rr_loads' = rr_loads + 1
    /\ rr_load_failed' = TRUE
    /\ pc' = [pc EXCEPT ![t] = "load_disable"]
    /\ ev' = [ev EXCEPT ![t] = @ \cup {"rr_load_fail"}]
    /\ UNCHANGED <<svc, llm_loads, llm_load_failed, transient,
                   op, req, indices, pre, cands, scores, reranked, explanation, result, raised>>

\* 36: self._model_loaded = True
LoadSetFlag(t) ==
    /\ pc[t] = "load_flag"
    /\ rr_model_loaded' = TRUE
    /\ pc' = [pc EXCEPT ![t] = "rr_score"]
    /\ UNCHANGED <<index_loaded, rr_enabled, rr_model, llm_vars, hist, op, locals>>

\* A failed load that leaves the reranker enabled.
LoadDisableKeepsEnabled(t) ==
    /\ pc[t] = "load_disable"
    /\ pc' = [pc EXCEPT ![t] = "load_unflag"]
    /\ UNCHANGED <<svc, hist, op, locals>>

\* 41: self.enabled = False
LoadDisable(t) ==
    /\ pc[t] = "load_disable"
    /\ rr_enabled' = FALSE
    /\ pc' = [pc EXCEPT ![t] = "load_unflag"]
    /\ UNCHANGED <<index_loaded, rr_model_loaded, rr_model, llm_vars, hist, op, locals>>

\* 42-43, 129-132: self._model_loaded = False; raise; rerank's handler
\* returns the dummy scores.
LoadUnflag(t) ==
    /\ pc[t] = "load_unflag"
    /\ rr_model_loaded' = FALSE
    /\ RerankReturns(t, Fallback(cands[t], req[t].top_k), {})
    /\ UNCHANGED <<index_loaded, rr_enabled, rr_model, llm_vars, hist,
                   op, req, indices, pre, cands, scores, explanation, result, raised>>

\* 134-166: predict gives one score per pair
RrScoreOk(t) ==
    /\ pc[t] = "rr_score"
    /\ rr_model # "None"
    /\ \E raw \in [1..Len(cands[t]) -> RawScores] :
        /\ scores' = [scores EXCEPT ![t] = Normalize(raw)]
        /\ RerankReturns(t, TopResults(cands[t], Normalize(raw), req[t].top_k), {"scored"})
    /\ UNCHANGED <<svc, hist, op, req, indices, pre, cands, explanation, result, raised>>

\* A scoring failure handled as a load failure is: the reranker is disabled.
RrScoreFailsDisables(t) ==
    /\ pc[t] = "rr_score"
    /\ RerankReturns(t, Fallback(cands[t], req[t].top_k), {"score_failed"})
    /\ rr_enabled' = FALSE
    /\ transient' = transient \cup {"score"}
    /\ UNCHANGED <<index_loaded, rr_model_loaded, rr_model, llm_vars,
                   rr_loads, rr_load_failed, llm_loads, llm_load_failed,
                   op, req, indices, pre, cands, scores, explanation, result, raised>>

\* 144, 168-172: self.model.predict raises (the model's own failure, or an
\* AttributeError on a model that is None)
RrScoreFails(t) ==
    /\ pc[t] = "rr_score"
    /\ RerankReturns(t, Fallback(cands[t], req[t].top_k), {"score_failed"})
    /\ transient' = transient \cup {"score"}
    /\ UNCHANGED <<svc, rr_loads, rr_load_failed, llm_loads, llm_load_failed, op, req, indices, pre, cands, scores, explanation, result, raised>>

RerankStep(t) ==
    \/ RrDisabled(t)
    \/ RrEmpty(t)
    \/ RrEnabled(t)
    \/ RrCheckLoaded(t)
    \/ LoadGuardLoaded(t)
    \/ LoadGuardEnabled(t)
    \/ LoadConstructOk(t)
    \/ LoadConstructFails(t)
    \/ LoadSetFlag(t)
    \/ LoadDisable(t)
    \/ LoadUnflag(t)
    \/ RrScoreOk(t)
    \/ RrScoreFails(t)

\* ------------------------------------------ LLMService.generate_explanation
\* The recipes generate_explanation is given: by its direct caller, or by
\* _generate (167): the reranked recipes without their scores.
GenRecipes(t) ==
    IF op[t] = "generate" THEN cands[t]
    ELSE [i \in 1..Len(reranked[t]) |-> reranked[t][i][1]]

\* generate_explanation returns `value`: to its direct caller, or to process
\* through _generate (172-184).
GenerateReturns(t, value, events) ==
    /\ explanation' = [explanation EXCEPT ![t] = value]
    /\ ev' = [ev EXCEPT ![t] = @ \cup events]
    /\ pc' = [pc EXCEPT ![t] = IF op[t] = "generate" THEN "done" ELSE "finalize"]

\* rag_pipeline.py 162-164 and llm_service.py 171-181: no recipes, disabled,
\* or no API key
GenNothing(t) ==
    /\ pc[t] = "gen_entry"
    /\ IF GenRecipes(t) = << >>
       THEN GenerateReturns(t, "None",
                IF op[t] = "generate" THEN {"generate_called", "generate_returned"} ELSE {})
       ELSE /\ ~llm_enabled \/ ~llm_api_key
            /\ GenerateReturns(t, "None", {"generate_called", "generate_returned"})
    /\ UNCHANGED <<svc, hist, op, req, indices, pre, cands, scores, reranked, result, raised>>

\* No test for an empty recipe list.
GenProceedOnEmpty(t) ==
    /\ pc[t] = "gen_entry"
    /\ llm_enabled
    /\ llm_api_key
    /\ pc' = [pc EXCEPT ![t] = "gen_loaded"]
    /\ ev' = [ev EXCEPT ![t] = @ \cup {"generate_called"}]
    /\ UNCHANGED <<svc, hist, op, req, indices, pre, cands, scores, reranked, explanation, result, raised>>

\* 171-181 passed
GenProceed(t) ==
    /\ pc[t] = "gen_entry"
    /\ GenRecipes(t) # << >>
    /\ llm_enabled
    /\ llm_api_key
    /\ pc' = [pc EXCEPT ![t] = "gen_loaded"]
    /\ ev' = [ev EXCEPT ![t] = @ \cup {"generate_called"}]
    /\ UNCHANGED <<svc, hist, op, req, indices, pre, cands, scores, reranked, explanation, result, raised>>

\* 185: if not self._model_loaded: self._load_model()
GenCheckLoaded(t) ==
    /\ pc[t] = "gen_loaded"
    /\ pc' = [pc EXCEPT ![t] = IF llm_model_loaded THEN "gen_avail" ELSE "llm_guard_enabled"]
    /\ UNCHANGED <<svc, hist, op, locals>>

\* 34-36: if not self.enabled: return
LlmGuardEnabled(t) ==
    /\ pc[t] = "llm_guard_enabled"
    /\ pc' = [pc EXCEPT ![t] = IF llm_enabled THEN "llm_guard_key" ELSE "gen_avail"]
    /\ UNCHANGED <<svc, hist, op, locals>>

\* 38-42: if not self.api_key: self.enabled = False; return
LlmGuardKey(t) ==
    /\ pc[t] = "llm_guard_key"
    /\ pc' = [pc EXCEPT ![t] = IF llm_api_key THEN "llm_guard_loaded" ELSE "gen_avail"]
    /\ llm_enabled' = IF llm_api_key THEN llm_enabled ELSE FALSE
    /\ UNCHANGED <<index_loaded, rr_vars, llm_api_key, llm_model_loaded, llm_model,
                   hist, op, locals>>

\* 44: if not self._model_loaded
LlmGuardLoaded(t) ==
    /\ pc[t] = "llm_guard_loaded"
    /\ pc' = [pc EXCEPT ![t] = IF llm_model_loaded THEN "gen_avail" ELSE "llm_construct"]
    /\ UNCHANGED <<svc, hist, op, locals>>

\* 47-48: genai.configure(...); self.model = genai.GenerativeModel(...)
LlmConstructOk(t) ==
    /\ pc[t] = "llm_construct"
    /\ llm_model' = "model"
    /\ llm_loads' = llm_loads + 1
    /\ pc' = [pc EXCEPT ![t] = "llm_flag"]
    /\ ev' = [ev EXCEPT ![t] = @ \cup {"llm_load_ok"}]
    /\ UNCHANGED <<index_loaded, rr_vars, llm_enabled, llm_api_key, llm_model_loaded,
                   rr_loads, rr_load_failed, llm_load_failed, transient,
                   op, req, indices, pre, cands, scores, reranked, explanation, result, raised>>

\* 47-48 raise
LlmConstructFails(t) ==
    /\ pc[t] = "llm_construct"
    /\ llm_loads' = llm_loads + 1
    /\ llm_load_failed' = TRUE
    /\ pc' = [pc EXCEPT ![t] = "llm_disable"]
    /\ ev' = [ev EXCEPT ![t] = @ \cup {"llm_load_fail"}]
    /\ UNCHANGED <<svc, rr_loads, rr_load_failed, transient,
                   op, req, indices, pre, cands, scores, reranked, explanation, result, raised>>

\* 49: self._model_loaded = True
LlmSetFlag(t) ==
    /\ pc[t] = "llm_flag"
    /\ llm_model_loaded' = TRUE
    /\ pc' = [pc EXCEPT ![t] = "gen_avail"]
    /\ UNCHANGED <<index_loaded, rr_vars, llm_enabled, llm_api_key, llm_model,
                   hist, op, locals>>

\* 54: self.enabled = False
\* The failure is not recorded: the service stays enabled.
LlmDisableKeepsEnabled(t) ==
    /\ pc[t] = "llm_disable"
    /\ pc' = [pc EXCEPT ![t] = "llm_unflag"]
    /\ UNCHANGED <<svc, hist, op, locals>>

LlmDisable(t) ==
    /\ pc[t] = "llm_disable"
    /\ llm_enabled' = FALSE
    /\ pc' = [pc EXCEPT ![t] = "llm_unflag"]
    /\ UNCHANGED <<index_loaded, rr_vars, llm_api_key, llm_model_loaded, llm_model,
                   hist, op, locals>>

\* 55-56, 218-221: self._model_loaded = False; raise; generate_explanation's
\* handler returns None.
LlmUnflag(t) ==
    /\ pc[t] = "llm_unflag"
    /\ llm_model_loaded' = FALSE
    /\ GenerateReturns(t, "None", {"generate_returned"})
    /\ UNCHANGED <<index_loaded, rr_vars, llm_enabled, llm_api_key, llm_model, hist,
                   op, req, indices, pre, cands, scores, reranked, result, raised>>

\* 189-191: if not self.is_available(): return None
GenAvail(t) ==
    /\ pc[t] = "gen_avail"
    /\ IF LLMIsAvailable
       THEN /\ pc' = [pc EXCEPT ![t] = "gen_call"]
            /\ UNCHANGED <<explanation, ev>>
       ELSE GenerateReturns(t, "None", {"generate_returned"})
    /\ UNCHANGED <<svc, hist, op, req, indices, pre, cands, scores, reranked, result, raised>>

\* 194-216: the model answers
GenCallOk(t) ==
    /\ pc[t] = "gen_call"
    /\ llm_model # "None"
    /\ GenerateReturns(t, "text", {"generated", "generate_returned"})
    /\ UNCHANGED <<svc, hist, op, req, indices, pre, cands, scores, reranked, result, raised>>

\* 204, 218-221: generate_content (or reading response.text) raises
GenCallFails(t) ==
    /\ pc[t] = "gen_call"
    /\ GenerateReturns(t, "None", {"generate_failed", "generate_returned"})
    /\ transient' = transient \cup {"generate"}
    /\ UNCHANGED <<svc, rr_loads, rr_load_failed, llm_loads, llm_load_failed, op, req, indices, pre, cands, scores, reranked, result, raised>>

GenerateStep(t) ==
    \/ GenNothing(t)
    \/ GenProceed(t)
    \/ GenCheckLoaded(t)
    \/ LlmGuardEnabled(t)
    \/ LlmGuardKey(t)
    \/ LlmGuardLoaded(t)
    \/ LlmConstructOk(t)
    \/ LlmConstructFails(t)
    \/ LlmSetFlag(t)
    \/ LlmDisable(t)
    \/ LlmUnflag(t)
    \/ GenAvail(t)
    \/ GenCallOk(t)
    \/ GenCallFails(t)

\* ------------------------------------------------ RAGPipeline.process, end
\* 241-257
FinalRecipes(t) ==
    [i \in 1..Len(reranked[t]) |-> Annotate(reranked[t][i][1], req[t].ingredients)]

\* The generation stage recorded whether asked for or not.
PipelineStagesAlways(explain) == <<"retrieval", "reranking", "generation">>

\* 277
PipelineStages(explain) ==
    <<"retrieval", "reranking">> \o (IF explain THEN <<"generation">> ELSE << >>)

\* The generator's flag never set.
ProcessResultLlmUnused(t) ==
    [recipes |-> FinalRecipes(t),
     explanation |-> explanation[t],
     metadata |-> [retrieval_count |-> Len(cands[t]),
                   reranked_count |-> Len(reranked[t]),
                   pipeline_stages |-> PipelineStages(req[t].explain),
                   retriever_used |-> index_loaded,
                   reranker_used |-> RerankerIsLoaded,
                   llm_used |-> FALSE]]

\* Both counts taken from the reranked list.
ProcessResultOneCount(t) ==
    [recipes |-> FinalRecipes(t),
     explanation |-> explanation[t],
     metadata |-> [retrieval_count |-> Len(reranked[t]),
                   reranked_count |-> Len(reranked[t]),
                   pipeline_stages |-> PipelineStages(req[t].explain),
                   retriever_used |-> index_loaded,
                   reranker_used |-> RerankerIsLoaded,
                   llm_used |-> LLMIsAvailable]]

\* 271-282
ProcessResult(t) ==
    [recipes |-> FinalRecipes(t),
     explanation |-> explanation[t],
     metadata |-> [retrieval_count |-> Len(cands[t]),
                   reranked_count |-> Len(reranked[t]),
                   pipeline_stages |-> PipelineStages(req[t].explain),
                   retriever_used |-> index_loaded,
                   reranker_used |-> RerankerIsLoaded,
                   llm_used |-> LLMIsAvailable]]

Finalize(t) ==
    /\ pc[t] = "finalize"
    /\ result' = [result EXCEPT ![t] = ProcessResult(t)]
    /\ pc' = [pc EXCEPT ![t] = "done"]
    /\ UNCHANGED <<svc, hist, op, req, indices, pre, cands, scores, reranked, explanation, raised, ev>>

\* 278: self.retriever.is_loaded() raises while the metadata is built:
\* nothing catches it.
FinalizeRaises(t) ==
    /\ pc[t] = "finalize"
    /\ Raise(t, {"status_raised"})

ProcessStep(t) ==
    \/ RetrieveLexical(t)
    \/ RetrieveVector(t)
    \/ RetrieveFallback(t)
    \/ RetrieveRaises(t)
    \/ Finalize(t)
    \/ FinalizeRaises(t)

\* ------------------------------------------------------------ specification
Step(t) ==
    \/ ProcessStep(t)
    \/ RerankStep(t)
    \/ GenerateStep(t)
    \/ Status(t)
    \/ Return(t)

Start(t) ==
    \/ StartProcess(t)
    \/ StartRerank(t)
    \/ StartGenerate(t)
    \/ StartStatus(t)

\* Requests are served one at a time, by one worker.
Workers == {1}

Next == \E t \in Workers : Start(t) \/ Step(t)

Spec == Init /\ [][Next]_vars

\* Worker threads call the two services at the same time: their steps
\* interleave at every read and write of a service field (neither service
\* takes a lock).
\* What the concurrent callers pass: no recipe or one, and top_k = 1.
ConcLists == { << >>, <<0>> }

StartConc(t) ==
    \/ \E recipes \in ConcLists :
           Begin(t, "rerank", "rr_enabled", [NoReq EXCEPT !.top_k = 1], recipes)
    \/ \E recipes \in ConcLists :
           Begin(t, "generate", "gen_entry", NoReq, recipes)

StepConc(t) ==
    \/ RerankStep(t)
    \/ GenerateStep(t)
    \/ Return(t)

NextConc == \E t \in Threads : StartConc(t) \/ StepConc(t)

SpecConc == Init /\ [][NextConc]_vars

\* ------------------------------------------------------------------ claims
ProcessReturned(t) == op[t] = "process" /\ pc[t] = "done" /\ ~raised[t]

\* rerank has returned to the call t (a direct call, or process past _rerank).
RerankReturned(t) == "rerank_returned" \in ev[t] /\ ~raised[t]

\* generate_explanation has just returned to the call t.
GenerateReturned(t) ==
    /\ "generate_returned" \in ev[t]
    /\ pc[t] = IF op[t] = "generate" THEN "done" ELSE "finalize"

\* The first top_k candidates, in input order, each with score 1.0.
Degraded(t) ==
    [i \in 1..Min(req[t].top_k, Len(cands[t])) |-> <<cands[t][i], Scale>>]

\* C1: process always returns a result; no exception of a subsystem reaches
\* its caller.  The code lets two through: the lexical matcher raising inside
\* _retrieve's handler (95-100), and retriever.is_loaded() raising while the
\* metadata is built (278).
C1_NoExceptionLeavesProcess ==
    \A t \in Threads :
        (op[t] = "process" /\ pc[t] = "done") =>
            (~raised[t] /\ result[t] # NoResult)

\* C2: when retrieval yields no candidate, process returns the empty result
\* with stages ["retrieval"] and counts 0, and calls neither the reranker nor
\* the generator (their state and load counts are as when the request began).
C2_ShortCircuit ==
    \A t \in Threads :
        (ProcessReturned(t) /\ cands[t] = << >>) =>
            /\ result[t] = [recipes |-> << >>, explanation |-> "None",
                            metadata |-> [retrieval_count |-> 0,
                                          reranked_count |-> 0,
                                          pipeline_stages |-> <<"retrieval">>]]
            /\ ev[t] \cap {"rerank_called", "rerank_returned",
                           "generate_called", "generate_returned"} = {}
            /\ pre[t] = Snapshot

C2_Witness ==
    \E t \in Threads :
        /\ ProcessReturned(t)
        /\ cands[t] = << >>
        /\ req[t].explain
        /\ result[t].recipes = << >>

\* C3: with at least one candidate, the stages are retrieval, reranking, and
\* generation exactly when explain was asked for, whatever the generator did;
\* without an API key and with explain the explanation is None and
\* "generation" is still listed.
C3_Stages ==
    \A t \in Threads :
        (ProcessReturned(t) /\ cands[t] # << >>) =>
            /\ result[t].metadata.pipeline_stages =
                   IF req[t].explain
                   THEN <<"retrieval", "reranking", "generation">>
                   ELSE <<"retrieval", "reranking">>
            /\ (req[t].explain /\ ~llm_api_key) => result[t].explanation = "None"

C3_Witness ==
    \E t \in Threads :
        /\ ProcessReturned(t)
        /\ cands[t] # << >>
        /\ req[t].explain
        /\ ~llm_api_key
        /\ result[t].explanation = "None"
        /\ Len(result[t].metadata.pipeline_stages) = 3

\* C4: rerank returns exactly min(top_k, number of candidates) scored
\* recipes, on every path.
C4_Length ==
    \A t \in Threads :
        RerankReturned(t) => Len(reranked[t]) = Min(req[t].top_k, Len(cands[t]))

C4_Witness ==
    \E t \in Threads :
        /\ RerankReturned(t)
        /\ "scored" \in ev[t]
        /\ Len(cands[t]) > req[t].top_k
        /\ Len(reranked[t]) = req[t].top_k

\* The output is the input at distinct positions f[1], f[2], ... with the
\* scores of those positions, and no position left out scores higher than
\* one that was kept.
IsTopSelection(out, recipes, normalized) ==
    \E f \in [1..Len(out) -> 1..Len(recipes)] :
        /\ \A i, j \in 1..Len(out) : i # j => f[i] # f[j]
        /\ \A i \in 1..Len(out) : out[i] = <<recipes[f[i]], normalized[f[i]]>>
        /\ \A j \in 1..Len(recipes) :
               (\A i \in 1..Len(out) : f[i] # j) =>
                   \A i \in 1..Len(out) : normalized[j] <= out[i][2]

\* C5: when scoring succeeds the output is sorted by score, non-increasing,
\* is made of distinct input candidates, and leaves out no candidate that
\* scores strictly higher than one it contains.
C5_SortedTop ==
    \A t \in Threads :
        (RerankReturned(t) /\ "scored" \in ev[t]) =>
            /\ \A i \in 1..(Len(reranked[t]) - 1) :
                   reranked[t][i][2] >= reranked[t][i + 1][2]
            /\ IsTopSelection(reranked[t], cands[t], scores[t])

C5_Witness ==
    \E t \in Threads :
        /\ RerankReturned(t)
        /\ "scored" \in ev[t]
        /\ Len(cands[t]) > req[t].top_k
        /\ scores[t][1] < scores[t][Len(cands[t])]
        /\ reranked[t][1] = <<cands[t][Len(cands[t])], scores[t][Len(cands[t])]>>

\* C6: every score rerank returns is in [0,1], scored or dummy.
C6_ScoreRange ==
    \A t \in Threads :
        RerankReturned(t) =>
            \A i \in 1..Len(reranked[t]) :
                reranked[t][i][2] >= 0 /\ reranked[t][i][2] <= Scale

C6_Witness ==
    \E t \in Threads :
        /\ RerankReturned(t)
        /\ "scored" \in ev[t]
        /\ \E i \in 1..Len(reranked[t]) : reranked[t][i][2] = 0
        /\ \E i \in 1..Len(reranked[t]) : reranked[t][i][2] = Scale

\* C7: a reranker that is disabled when called, whose load fails, or whose
\* scoring call fails returns the first top_k candidates in input order,
\* each with score 1.0, and raises nothing.
C7_DegradedMode ==
    \A t \in Threads :
        (/\ "rerank_returned" \in ev[t]
         /\ op[t] = "rerank" \/ pc[t] # "done"
         /\ \/ ~pre[t].rr_enabled
            \/ "rr_load_fail" \in ev[t]
            \/ "score_failed" \in ev[t]) =>
            (~raised[t] /\ reranked[t] = Degraded(t))

C7_Witness ==
    \E t \in Threads :
        /\ RerankReturned(t)
        /\ "score_failed" \in ev[t]
        /\ Len(cands[t]) > req[t].top_k
        /\ reranked[t] = Degraded(t)

\* C8: no model before the first load; the first rerank call that needs the
\* model (enabled, not loaded, candidates) makes one load attempt; a call made
\* after a load has failed makes none and returns the degraded result.
C8_LazyLoadNoRetry ==
    /\ rr_loads = 0 => (rr_model = "None" /\ ~rr_model_loaded)
    /\ \A t \in Threads :
           RerankReturned(t) =>
               /\ (pre[t].rr_enabled /\ ~pre[t].rr_model_loaded /\ cands[t] # << >>)
                      => rr_loads = pre[t].rr_loads + 1
               /\ pre[t].rr_load_failed =>
                      (rr_loads = pre[t].rr_loads /\ reranked[t] = Degraded(t))

C8_Witness ==
    \E t \in Threads :
        /\ RerankReturned(t)
        /\ pre[t].rr_load_failed
        /\ cands[t] # << >>
        /\ reranked[t] = Degraded(t)

\* What get_model_info and /health report for an enabled reranker that has
\* never been used.
NeverUsedInfo == [loaded |-> FALSE, enabled |-> TRUE]

NeverUsedHealth == [available |-> TRUE, loaded |-> FALSE, model |-> "model_name"]

\* C9: an enabled reranker that was never used is reported as NeverUsedInfo /
\* NeverUsedHealth, and a reranker whose load failed is reported differently,
\* by get_model_info and by /health.
C9_FailedLoadVisible ==
    \A t \in Threads :
        (op[t] = "status" /\ pc[t] = "done") =>
            /\ (rr_enabled /\ rr_loads = 0) =>
                   /\ result[t].reranker_info = NeverUsedInfo
                   /\ result[t].health.reranker = NeverUsedHealth
            /\ rr_load_failed =>
                   /\ result[t].reranker_info # NeverUsedInfo
                   /\ result[t].health.reranker # NeverUsedHealth

C9_Witness ==
    \E t \in Threads :
        /\ op[t] = "status"
        /\ pc[t] = "done"
        /\ rr_load_failed
        /\ result[t].reranker_info = [loaded |-> FALSE, enabled |-> FALSE]

\* C10: generate_explanation returns None, and raises nothing, when the
\* recipe list is empty (whatever the service's state), when the service is
\* disabled, when there is no API key, when the model fails to load, and when
\* the generation call fails.
C10_NoExplanation ==
    \A t \in Threads :
        (/\ GenerateReturned(t)
         /\ \/ GenRecipes(t) = << >>
            \/ ~pre[t].llm_enabled
            \/ ~llm_api_key
            \/ "llm_load_fail" \in ev[t]
            \/ "generate_failed" \in ev[t]) =>
            (explanation[t] = "None" /\ ~raised[t])

C10_Witness ==
    \E t \in Threads :
        /\ GenerateReturned(t)
        /\ op[t] = "generate"
        /\ cands[t] = << >>
        /\ LLMIsAvailable
        /\ explanation[t] = "None"

\* C11: the generator has no model before its first load and loads at most
\* once: a generate_explanation call made after a successful load makes no
\* load, and one made after a failed load makes none and returns None.
C11_GeneratorLoadsOnce ==
    /\ llm_loads = 0 => (llm_model = "None" /\ ~llm_model_loaded)
    /\ llm_loads <= 1
    /\ \A t \in Threads :
           GenerateReturned(t) =>
               /\ pre[t].llm_model_loaded => llm_loads = pre[t].llm_loads
               /\ pre[t].llm_load_failed =>
                      (llm_loads = pre[t].llm_loads /\ explanation[t] = "None")

C11_Witness ==
    \E t \in Threads :
        /\ GenerateReturned(t)
        /\ pre[t].llm_load_failed
        /\ llm_api_key
        /\ GenRecipes(t) # << >>
        /\ explanation[t] = "None"

\* C12: when calls use the reranker, or the generator, for the first time
\* at the same moment, the model is loaded at most once in total.  The code
\* reads _model_loaded (reranker_service.py 32, llm_service.py 44) and sets it
\* (36, 49) with no lock in between: two calls both find it unset and both
\* construct the model.
C12_AtMostOneLoad == rr_loads <= 1 /\ llm_loads <= 1

\* C13: under any interleaving of rerank calls, no call is at the scoring
\* step (self.model.predict, 144) while the model is unset, and is_loaded()
\* is not true while the model is unset.  The code lets a call through: it
\* passes the enabled test (117), another call's load fails and clears
\* `enabled` (41), and its own _load_model then skips the load at 32 and
\* returns normally with self.model still None.
C13_ModelSetWhenScoring ==
    /\ \A t \in Threads : pc[t] = "rr_score" => rr_model # "None"
    /\ RerankerIsLoaded => rr_model # "None"

\* C14: in every recipe process returns, matchingCount is the length of
\* matchingIngredients, every element of matchingIngredients is one of the
\* user's ingredients and occurs, case-insensitively, in the recipe's
\* ingredient text, and every user ingredient that so occurs is an element.
C14_Annotation ==
    \A t \in Threads :
        ProcessReturned(t) =>
            \A i \in 1..Len(result[t].recipes) :
                LET r    == result[t].recipes[i]
                    m    == r.matchingIngredients
                    text == LowerStr(IngredientsOf(r.recipe))
                    user == req[t].ingredients
                IN  /\ r.matchingCount = Len(m)
                    /\ \A j \in 1..Len(m) :
                           /\ \E u \in 1..Len(user) : user[u] = m[j]
                           /\ Contains(text, LowerStr(m[j]))
                    /\ \A u \in 1..Len(user) :
                           Contains(text, LowerStr(user[u])) =>
                               \E j \in 1..Len(m) : m[j] = user[u]

C14_Witness ==
    \E t \in Threads :
        /\ ProcessReturned(t)
        /\ \E i \in 1..Len(result[t].recipes) :
               LET r == result[t].recipes[i]
               IN  /\ r.matchingCount >= 1
                   /\ r.matchingCount < Len(req[t].ingredients)
                   /\ \E j \in 1..Len(r.matchingIngredients) :
                          ~Contains(IngredientsOf(r.recipe), r.matchingIngredients[j])

\* C15: matchingIngredients holds no ingredient twice, also when the user's
\* list repeats an ingredient.  The code appends once per element of
\* user_ingredients (245-249), so a repeated ingredient that matches is
\* listed, and counted, once per repetition.
C15_MatchingIsSet ==
    \A t \in Threads :
        ProcessReturned(t) =>
            \A i \in 1..Len(result[t].recipes) :
                LET m == result[t].recipes[i].matchingIngredients
                IN  \A j, k \in 1..Len(m) : j # k => m[j] # m[k]

\* C16: when at least one candidate was retrieved, the recipes process
\* returns are the recipes of the reranker's output, one per scored recipe
\* and in its order (scores non-increasing); metadata.reranked_count is the
\* number of returned recipes and metadata.retrieval_count the number of
\* retrieved candidates.
C16_ReturnsRerankerOutput ==
    \A t \in Threads :
        (ProcessReturned(t) /\ cands[t] # << >>) =>
            /\ Len(result[t].recipes) = Len(reranked[t])
            /\ \A i \in 1..Len(reranked[t]) :
                   result[t].recipes[i].recipe = reranked[t][i][1]
            /\ \A i \in 1..(Len(reranked[t]) - 1) :
                   reranked[t][i][2] >= reranked[t][i + 1][2]
            /\ result[t].metadata.reranked_count = Len(result[t].recipes)
            /\ result[t].metadata.retrieval_count = Len(cands[t])

C16_Witness ==
    \E t \in Threads :
        /\ ProcessReturned(t)
        /\ "scored" \in ev[t]
        /\ Len(cands[t]) = 2
        /\ Len(result[t].recipes) = 1
        /\ result[t].recipes[1].recipe = cands[t][2]
        /\ result[t].recipes[1].recipe # cands[t][1]
        /\ result[t].metadata.retrieval_count = 2

\* C17: metadata.reranker_used is false whenever the scores of the response
\* are the degraded 1.0 (reranker disabled, load failed, or scoring failed in
\* this request), and true only when the cross-encoder scored this request's
\* candidates.  The code reports reranker.is_loaded() as it is at the end of
\* the request (279): after a scoring call that failed on a loaded model it
\* is true.
C17_RerankerUsedPrecise ==
    \A t \in Threads :
        (ProcessReturned(t) /\ cands[t] # << >>) =>
            /\ (\/ ~pre[t].rr_enabled
                \/ "rr_load_fail" \in ev[t]
                \/ "score_failed" \in ev[t]) => ~result[t].metadata.reranker_used
            /\ result[t].metadata.reranker_used => "scored" \in ev[t]

\* _retrieve has returned to the process call t.
RetrieveReturned(t) ==
    /\ op[t] = "process"
    /\ ~raised[t]
    /\ "lexical" \in ev[t] \/ "vector" \in ev[t]

\* C18: _retrieve returns at most min(limit, corpus size) recipes, on the
\* vector path and on the lexical path.
C18_RetrieveLength ==
    \A t \in Threads :
        RetrieveReturned(t) =>
            Len(cands[t]) <= Min(req[t].retrieval_top_k, CorpusSize)

C18_Witness ==
    \E t \in Threads :
        /\ RetrieveReturned(t)
        /\ "vector" \in ev[t]
        /\ req[t].retrieval_top_k > CorpusSize
        /\ Len(cands[t]) = CorpusSize

\* C19: when the index is not loaded, or the embedding or the search raises,
\* _retrieve raises nothing and returns the lexical matcher's result for the
\* same ingredients and limit (recipes with a match, by descending match
\* count); with the index not loaded the search is not made.  The code
\* calls the matcher again inside the handler (95-100), unguarded: when it
\* raises there, _retrieve raises (the exception of claim C1).
C19_FallbackToLexical ==
    \A t \in Threads :
        (/\ op[t] = "process"
         /\ pc[t] # "retrieve"
         /\ ~index_loaded \/ "try_raised" \in ev[t]) =>
            /\ "lexical_raised" \notin ev[t]
            /\ ~index_loaded => "vector" \notin ev[t]
            /\ ~raised[t] =>
                   /\ cands[t] = LexicalMatch(req[t].ingredients, req[t].retrieval_top_k)
                   /\ \A i \in 1..Len(cands[t]) :
                          MatchCount(cands[t][i], req[t].ingredients) > 0
                   /\ \A i \in 1..(Len(cands[t]) - 1) :
                          MatchCount(cands[t][i], req[t].ingredients)
                              >= MatchCount(cands[t][i + 1], req[t].ingredients)

\* C20: on the vector path every identifier outside the corpus (below 0,
\* such as -1, or at least the corpus size) is discarded, and the recipes
\* returned are the records at the in-bounds identifiers, in the order the
\* index returned them.  The code only tests idx < len(all_recipes) (85):
\* -1 passes, and all_recipes[-1] is the last record of the corpus.
C20_OutOfBoundsDiscarded ==
    \A t \in Threads :
        (RetrieveReturned(t) /\ "vector" \in ev[t] /\ "rerank_called" \notin ev[t]) =>
            cands[t] = SelectSeq(indices[t], LAMBDA id : id >= 0 /\ id < CorpusSize)

\* The generator's fields and load count are what they were when t began.
LlmUntouched(t) ==
    /\ llm_enabled = pre[t].llm_enabled
    /\ llm_model_loaded = pre[t].llm_model_loaded
    /\ llm_model = pre[t].llm_model
    /\ llm_loads = pre[t].llm_loads

\* The reranker's fields and load count are what they were when t began.
RrUntouched(t) ==
    /\ rr_enabled = pre[t].rr_enabled
    /\ rr_model_loaded = pre[t].rr_model_loaded
    /\ rr_model = pre[t].rr_model
    /\ rr_loads = pre[t].rr_loads

\* C21: a request with explain = false never calls the generator, returns
\* no explanation, and leaves the generator's load state as it found it.
C21_NoGenerationUnlessAsked ==
    \A t \in Threads :
        (ProcessReturned(t) /\ ~req[t].explain) =>
            /\ "generate_called" \notin ev[t]
            /\ result[t].explanation = "None"
            /\ LlmUntouched(t)

C21_Witness ==
    \E t \in Threads :
        /\ ProcessReturned(t)
        /\ ~req[t].explain
        /\ result[t].recipes # << >>
        /\ llm_enabled /\ llm_api_key /\ ~llm_model_loaded
        /\ result[t].explanation = "None"

\* C22: every result process returns, the short-circuit one included,
\* carries retrieval_count, reranked_count, the stage list and the three
\* availability flags in its metadata.  The short-circuit dict (221-231) has
\* only the first three.
C22_MetadataComplete ==
    \A t \in Threads :
        ProcessReturned(t) =>
            {"retrieval_count", "reranked_count", "pipeline_stages",
             "retriever_used", "reranker_used", "llm_used"}
                \subseteq DOMAIN result[t].metadata

\* C23: metadata.retriever_used is true only when the index produced this
\* request's candidates; when retrieval fell back to the lexical matcher
\* (index not loaded, or the embedding or the search raised) it is false.
\* The code reports retriever.is_loaded() (278): after a search that raised
\* on a loaded index it is true.
C23_RetrieverUsedPrecise ==
    \A t \in Threads :
        (ProcessReturned(t) /\ cands[t] # << >>) =>
            /\ "lexical" \in ev[t] => ~result[t].metadata.retriever_used
            /\ result[t].metadata.retriever_used => "vector" \in ev[t]

\* C24: a scoring call or a generation call that raises does not disable
\* its service: the model is still loaded and the service enabled when the
\* call returns, and a later call with something to process attempts the
\* scoring / the generation again, without another load.
C24_TransientFailureKeepsService ==
    \A t \in Threads :
        /\ (RerankReturned(t) /\ "score_failed" \in ev[t]) => RerankerIsLoaded
        /\ (GenerateReturned(t) /\ "generate_failed" \in ev[t]) => LLMIsAvailable
        /\ (RerankReturned(t) /\ "score" \in pre[t].transient /\ cands[t] # << >>) =>
               /\ "scored" \in ev[t] \/ "score_failed" \in ev[t]
               /\ rr_loads = pre[t].rr_loads
        /\ (/\ GenerateReturned(t)
            /\ "generate" \in pre[t].transient
            /\ "generate_called" \in ev[t]
            /\ GenRecipes(t) # << >>) =>
               /\ "generated" \in ev[t] \/ "generate_failed" \in ev[t]
               /\ llm_loads = pre[t].llm_loads

C24_Witness ==
    \E t \in Threads :
        /\ op[t] = "process"
        /\ pc[t] = "finalize"
        /\ pre[t].transient = {"score", "generate"}
        /\ "scored" \in ev[t]
        /\ "generated" \in ev[t]

\* C25: the status accessors (is_loaded, is_available, the two
\* get_model_info and /health) load no model and leave enabled, the loaded
\* flag and the model of both services as they were.
C25_StatusReadOnly ==
    \A t \in Threads :
        (op[t] = "status" /\ pc[t] = "done") =>
            (RrUntouched(t) /\ LlmUntouched(t))

C25_Witness ==
    \E t \in Threads :
        /\ op[t] = "status"
        /\ pc[t] = "done"
        /\ rr_enabled /\ ~rr_model_loaded /\ rr_model = "None"
        /\ llm_enabled /\ llm_api_key /\ ~llm_model_loaded
        /\ result[t].health.reranker.loaded = FALSE

\* C26: a call with nothing to process loads no model: rerank with no
\* candidates returns the empty list, generate_explanation with no recipes,
\* or on a disabled service, or without an API key, returns None, and each
\* leaves enabled, the loaded flag, the model and the load count unchanged.
C26_NothingToProcessNoLoad ==
    \A t \in Threads :
        /\ (op[t] = "rerank" /\ pc[t] = "done" /\ cands[t] = << >>) =>
               (reranked[t] = << >> /\ ~raised[t] /\ RrUntouched(t))
        /\ (/\ op[t] = "generate"
            /\ pc[t] = "done"
            /\ cands[t] = << >> \/ ~pre[t].llm_enabled \/ ~llm_api_key) =>
               (explanation[t] = "None" /\ ~raised[t] /\ LlmUntouched(t))

C26_Witness ==
    \E t \in Threads :
        /\ op[t] = "rerank"
        /\ pc[t] = "done"
        /\ cands[t] = << >>
        /\ rr_enabled /\ ~rr_model_loaded /\ rr_loads = 0
        /\ reranked[t] = << >>

\* C27: with requests served one at a time, a result of process that has
\* an explanation has metadata.llm_used true, and a result whose llm_used is
\* false has no explanation (the short-circuit result, which has no flag,
\* has none either).
C27_ExplanationImpliesLlmUsed ==
    \A t \in Threads :
        ProcessReturned(t) =>
            IF cands[t] = << >>
            THEN result[t].explanation = "None"
            ELSE /\ result[t].explanation # "None" => result[t].metadata.llm_used
                 /\ ~result[t].metadata.llm_used => result[t].explanation = "None"

C27_Witness ==
    \E t \in Threads :
        /\ ProcessReturned(t)
        /\ result[t].explanation = "text"
        /\ result[t].metadata.llm_used
        /\ pre[t].llm_loads = 0

\* C28: once a model has been loaded successfully its service stays loaded
\* and enabled in every later state, under any interleaving of first-use
\* calls.  In the code a call whose own load attempt fails runs
\* `self.enabled = False; self._model_loaded = False` (reranker_service.py
\* 41-42, llm_service.py 54-55) whatever another call has achieved meanwhile.
C28_LoadedStaysLoaded ==
    [][/\ RerankerIsLoaded => RerankerIsLoaded'
       /\ LLMIsAvailable => LLMIsAvailable']_vars

====
